---- MODULE Spec2Model ----
(***************************************************************************)
(* Skill Swap Platform: the swap-request workflow of api/services.py over  *)
(* the Profile and SwapRequest tables of api/models.py.                     *)
(*                                                                         *)
(* Spec     : every service call is one atomic step (transaction.atomic,   *)
(*            one request at a time); the SwapRequest object a caller      *)
(*            passes to respond_to_swap is the row as loaded at the call   *)
(*            (api/views.py: get_object_or_404 right before the call).     *)
(* SpecConc : create_swap_request run by two concurrent transactions, the  *)
(*            validation read and the INSERT being separate steps.         *)
(* SpecValidate : Spec plus the two validators called on their own.        *)
(* SpecQueries  : Spec plus the queries of ProfileService.                 *)
(* SpecNotify   : get_user_notifications on the tables of a longer run.    *)
(* SpecEdits    : respond_to_swap with profiles edited on the admin site.  *)
(* SpecApi      : the workflow as the API endpoints of api/views.py drive  *)
(*                it.                                                      *)
(***************************************************************************)
EXTENDS Integers, Sequences, FiniteSets, TLC

\* ---------------------------------------------------------------- bounds
MaxSwaps == 2
MaxEdits == 1

Users == {"alice", "bob", "carol"}
Skills == {"Python", "Design"}
SearchTerms == {"", "python", "PYTHON", "Py", "sign", "Java"}
Messages == {"hi"}
Procs == {"t1", "t2"}

\* ------------------------------------------------------- api/constants.py
PENDING == "pending"
ACCEPTED == "accepted"
COMPLETED == "completed"
REJECTED == "rejected"
DELETED == "deleted"

VALID_STATUSES == {PENDING, ACCEPTED, COMPLETED, REJECTED, DELETED}

\* (mutant: a completed request can go back to accepted)
TRANSITIONS_CompletedReopens ==
    [s \in VALID_STATUSES |->
        CASE s = PENDING -> {ACCEPTED, REJECTED, DELETED}
          [] s = ACCEPTED -> {COMPLETED}
          [] s = COMPLETED -> {ACCEPTED}
          [] OTHER -> {}]

\* (mutant: a rejected request can be accepted after all)
TRANSITIONS_RejectedReopens ==
    [s \in VALID_STATUSES |->
        CASE s = PENDING -> {ACCEPTED, REJECTED, DELETED}
          [] s = ACCEPTED -> {COMPLETED}
          [] s = REJECTED -> {ACCEPTED}
          [] OTHER -> {}]

TRANSITIONS ==
    [s \in VALID_STATUSES |->
        CASE s = PENDING -> {ACCEPTED, REJECTED, DELETED}
          [] s = ACCEPTED -> {COMPLETED}
          [] s = COMPLETED -> {}
          [] s = REJECTED -> {}
          [] s = DELETED -> {}]

PUBLIC == "public"
PRIVATE == "private"
FRIENDS_ONLY == "friends_only"
VALID_VISIBILITIES == {PUBLIC, PRIVATE, FRIENDS_ONLY}

SWAP_TO_SELF == "Cannot send swap request to yourself"
DUPLICATE_PENDING == "A pending swap request already exists between these users"
INVALID_STATUS_TRANSITION == "Invalid status transition"
UNAUTHORIZED_ACTION == "You are not authorized to perform this action"
PROFILE_NOT_PUBLIC == "Profile is not public"
PROFILE_NOT_FOUND == "Profile not found"

\* -------------------------------------------------- outcomes of a call
\* An outcome is the exception class that left the call and its message;
\* OK is a normal return.
Outcome(exc, msg) == [exc |-> exc, msg |-> msg]
OK == Outcome("none", "")
ValidationError(msg) == Outcome("ValidationError", msg)
PermissionDenied(msg) == Outcome("PermissionDenied", msg)
DoesNotExist == Outcome("Profile.DoesNotExist", "Profile matching query does not exist.")
IntegrityError == Outcome("IntegrityError", "UNIQUE constraint failed: sender, receiver, status")
SenderLacksSkill(skill) == ValidationError("You don't have the skill '" \o skill \o "' to offer")
ReceiverLacksSkill(skill) == ValidationError("Receiver doesn't have the skill '" \o skill \o "' to offer")

VARIABLES
    profiles,   \* the Profile table: a set of rows, at most one per user
    swaps,      \* the SwapRequest table: row i has id i (rows are never removed)
    now,        \* logical clock: the time of the latest write to the SwapRequest table
    last,       \* the latest service call: arguments, outcome, the table before it
    txn         \* SpecConc: the create_swap_request transaction of each process

vars == <<profiles, swaps, now, last, txn>>

\* ---------------------------------------------------------- api/models.py
ProfileRow(user, is_public, visibility, skills_offered, skills_wanted) ==
    [user |-> user, is_public |-> is_public, visibility |-> visibility,
     skills_offered |-> skills_offered, skills_wanted |-> skills_wanted]

\* (mutant: only the is_public flag is looked at)
is_available_for_swap_IgnoresVisibility(profile) ==
    profile.is_public

\* Profile.is_available_for_swap

is_available_for_swap(profile) ==
    profile.is_public /\ profile.visibility = PUBLIC

\* Profile.objects.get(user=...): the row exists / the row
has_profile(rows, user) == \E p \in rows : p.user = user
profile_of(rows, user) == CHOOSE p \in rows : p.user = user

\* (mutant: re-applying the status a request already has counts as legal)
can_transition_to_AllowsSameStatus(swap_request, new_status) ==
    \/ new_status \in TRANSITIONS[swap_request.status]
    \/ new_status = swap_request.status

\* SwapRequest.can_transition_to
can_transition_to(swap_request, new_status) ==
    new_status \in TRANSITIONS[swap_request.status]

\* (mutant: the constraint covers pending rows only, as its comment says)
violates_unique_together_PendingOnly(rows, id, sender, receiver, status) ==
    /\ status = PENDING
    /\ \E j \in DOMAIN rows :
          /\ j # id
          /\ rows[j].sender = sender
          /\ rows[j].receiver = receiver
          /\ rows[j].status = status

\* SwapRequest.Meta.unique_together = ['sender', 'receiver', 'status']:
\* would writing (sender, receiver, status) as row `id` collide with another row
violates_unique_together(rows, id, sender, receiver, status) ==
    \E j \in DOMAIN rows :
        /\ j # id
        /\ rows[j].sender = sender
        /\ rows[j].receiver = receiver
        /\ rows[j].status = status

\* -------------------------------------------------------- api/services.py
\* (mutant: the Q(sender=receiver, receiver=sender) branch is missing)
existing_pending_OneDirection(rows, sender, receiver) ==
    \E i \in DOMAIN rows :
        /\ rows[i].sender = sender /\ rows[i].receiver = receiver
        /\ rows[i].status = PENDING

\* (mutant: the status=PENDING condition of the filter is missing)
existing_pending_AnyStatus(rows, sender, receiver) ==
    \E i \in DOMAIN rows :
        \/ rows[i].sender = sender /\ rows[i].receiver = receiver
        \/ rows[i].sender = receiver /\ rows[i].receiver = sender

\* the filter(...).exists() of validate_swap_creation

existing_pending(rows, sender, receiver) ==
    \E i \in DOMAIN rows :
        /\ \/ rows[i].sender = sender /\ rows[i].receiver = receiver
           \/ rows[i].sender = receiver /\ rows[i].receiver = sender
        /\ rows[i].status = PENDING

\* (mutant: the sender == receiver check is missing)
validate_swap_creation_NoSelfCheck(sender, receiver, skill_offered, skill_requested) ==
    IF ~has_profile(profiles, receiver) THEN ValidationError(PROFILE_NOT_FOUND)
    ELSE IF ~is_available_for_swap(profile_of(profiles, receiver))
        THEN ValidationError(PROFILE_NOT_PUBLIC)
    ELSE IF ~has_profile(profiles, sender) THEN DoesNotExist
    ELSE IF skill_offered \notin profile_of(profiles, sender).skills_offered
        THEN SenderLacksSkill(skill_offered)
    ELSE IF skill_requested \notin profile_of(profiles, receiver).skills_offered
        THEN ReceiverLacksSkill(skill_requested)
    ELSE IF existing_pending(swaps, sender, receiver)
        THEN ValidationError(DUPLICATE_PENDING)
    ELSE OK

\* (mutant: the existing-pending check is missing)
validate_swap_creation_NoDuplicateCheck(sender, receiver, skill_offered, skill_requested) ==
    IF sender = receiver THEN ValidationError(SWAP_TO_SELF)
    ELSE IF ~has_profile(profiles, receiver) THEN ValidationError(PROFILE_NOT_FOUND)
    ELSE IF ~is_available_for_swap(profile_of(profiles, receiver))
        THEN ValidationError(PROFILE_NOT_PUBLIC)
    ELSE IF ~has_profile(profiles, sender) THEN DoesNotExist
    ELSE IF skill_offered \notin profile_of(profiles, sender).skills_offered
        THEN SenderLacksSkill(skill_offered)
    ELSE IF skill_requested \notin profile_of(profiles, receiver).skills_offered
        THEN ReceiverLacksSkill(skill_requested)
    ELSE OK

\* (mutant: the sender's skill is looked up among the skills offered or wanted)
validate_swap_creation_OfferedOrWanted(sender, receiver, skill_offered, skill_requested) ==
    IF sender = receiver THEN ValidationError(SWAP_TO_SELF)
    ELSE IF ~has_profile(profiles, receiver) THEN ValidationError(PROFILE_NOT_FOUND)
    ELSE IF ~is_available_for_swap(profile_of(profiles, receiver))
        THEN ValidationError(PROFILE_NOT_PUBLIC)
    ELSE IF ~has_profile(profiles, sender) THEN DoesNotExist
    ELSE IF skill_offered \notin (profile_of(profiles, sender).skills_offered
                                    \cup profile_of(profiles, sender).skills_wanted)
        THEN SenderLacksSkill(skill_offered)
    ELSE IF skill_requested \notin profile_of(profiles, receiver).skills_offered
        THEN ReceiverLacksSkill(skill_requested)
    ELSE IF existing_pending(swaps, sender, receiver)
        THEN ValidationError(DUPLICATE_PENDING)
    ELSE OK

\* SwapValidationService.validate_swap_creation: the outcome of the checks,
\* in the order the code makes them (line 48 is outside the try block, so a
\* sender without a profile leaves the call as Profile.DoesNotExist)

validate_swap_creation(sender, receiver, skill_offered, skill_requested) ==
    IF sender = receiver THEN ValidationError(SWAP_TO_SELF)
    ELSE IF ~has_profile(profiles, receiver) THEN ValidationError(PROFILE_NOT_FOUND)
    ELSE IF ~is_available_for_swap(profile_of(profiles, receiver))
        THEN ValidationError(PROFILE_NOT_PUBLIC)
    ELSE IF ~has_profile(profiles, sender) THEN DoesNotExist
    ELSE IF skill_offered \notin profile_of(profiles, sender).skills_offered
        THEN SenderLacksSkill(skill_offered)
    ELSE IF skill_requested \notin profile_of(profiles, receiver).skills_offered
        THEN ReceiverLacksSkill(skill_requested)
    ELSE IF existing_pending(swaps, sender, receiver)
        THEN ValidationError(DUPLICATE_PENDING)
    ELSE OK

\* (mutant: the authorization checks come before the transition check)
validate_swap_response_AuthorizationFirst(swap_request, user, new_status) ==
    IF new_status = DELETED /\ user # swap_request.sender
        THEN PermissionDenied(UNAUTHORIZED_ACTION)
    ELSE IF new_status \in {ACCEPTED, REJECTED} /\ user # swap_request.receiver
        THEN PermissionDenied(UNAUTHORIZED_ACTION)
    ELSE IF ~can_transition_to(swap_request, new_status)
        THEN ValidationError(INVALID_STATUS_TRANSITION)
    ELSE OK

\* (mutant: an accept is refused when the receiver's profile is no longer
\* available for swaps)
validate_swap_response_RechecksProfile(swap_request, user, new_status) ==
    IF ~can_transition_to(swap_request, new_status)
        THEN ValidationError(INVALID_STATUS_TRANSITION)
    ELSE IF new_status = DELETED /\ user # swap_request.sender
        THEN PermissionDenied(UNAUTHORIZED_ACTION)
    ELSE IF new_status \in {ACCEPTED, REJECTED} /\ user # swap_request.receiver
        THEN PermissionDenied(UNAUTHORIZED_ACTION)
    ELSE IF /\ new_status = ACCEPTED
            /\ ~is_available_for_swap(profile_of(profiles, swap_request.receiver))
        THEN ValidationError(PROFILE_NOT_PUBLIC)
    ELSE OK

\* SwapValidationService.validate_swap_response
validate_swap_response(swap_request, user, new_status) ==
    IF ~can_transition_to(swap_request, new_status)
        THEN ValidationError(INVALID_STATUS_TRANSITION)
    ELSE IF new_status = DELETED /\ user # swap_request.sender
        THEN PermissionDenied(UNAUTHORIZED_ACTION)
    ELSE IF new_status \in {ACCEPTED, REJECTED} /\ user # swap_request.receiver
        THEN PermissionDenied(UNAUTHORIZED_ACTION)
    ELSE OK

\* (mutant: the two skills are stored the wrong way round)
new_swap_request_SwapsSkills(sender, receiver, skill_offered, skill_requested, message, t) ==
    [sender |-> sender, receiver |-> receiver,
     skill_offered |-> skill_requested, skill_requested |-> skill_offered,
     message |-> message, status |-> PENDING,
     created_at |-> t, updated_at |-> t]

\* SwapRequest.objects.create(..., status=SwapStatus.PENDING): the new row
\* (created_at is auto_now_add, updated_at is auto_now: both the time t of the INSERT)

new_swap_request(sender, receiver, skill_offered, skill_requested, message, t) ==
    [sender |-> sender, receiver |-> receiver,
     skill_offered |-> skill_offered, skill_requested |-> skill_requested,
     message |-> message, status |-> PENDING,
     created_at |-> t, updated_at |-> t]

\* what `last` records of a call: the arguments, the outcome and the
\* SwapRequest table as it was when the call began
Call(op, user, receiver, skill_offered, skill_requested, message, id, new_status, outcome, before) ==
    [op |-> op, user |-> user, receiver |-> receiver,
     skill_offered |-> skill_offered, skill_requested |-> skill_requested,
     message |-> message, id |-> id, new_status |-> new_status,
     outcome |-> outcome, before |-> before]

NoCall == Call("none", "-", "-", "-", "-", "", 0, "-", OK, <<>>)

Idle == [pc |-> "idle", sender |-> "-", receiver |-> "-", skill_offered |-> "-",
         skill_requested |-> "-", message |-> "", outcome |-> OK]

\* ------------------------------------------------------------------ Init
\* The fixture of the spec's scenario and of test_workflow.py: alice offers
\* Python and wants Design, bob offers Design and wants Python, alice's
\* profile is public; carol is a user
\* without a profile. bob's profile has one of the visibility settings the
\* admin site can give it.
Fixtures ==
    { {ProfileRow("alice", TRUE, PUBLIC, {"Python"}, {"Design"}),
       ProfileRow("bob", is_public, visibility, {"Design"}, {"Python"})} :
      <<is_public, visibility>> \in
          {<<TRUE, PUBLIC>>, <<FALSE, PUBLIC>>, <<TRUE, PRIVATE>>, <<TRUE, FRIENDS_ONLY>>} }

Init ==
    /\ profiles \in Fixtures
    /\ swaps = <<>>
    /\ now = 0
    /\ last = NoCall
    /\ txn = [p \in Procs |-> Idle]

\* --------------------------------------------------------------- actions
\* SwapWorkflowService.create_swap_request, one atomic transaction
create_swap_request(sender, receiver, skill_offered, skill_requested, message) ==
    LET outcome == validate_swap_creation(sender, receiver, skill_offered, skill_requested)
        written == IF outcome # OK THEN outcome
                   ELSE IF violates_unique_together(swaps, 0, sender, receiver, PENDING)
                       THEN IntegrityError
                   ELSE OK
    IN  /\ Len(swaps) < MaxSwaps
        /\ last' = Call("create", sender, receiver, skill_offered, skill_requested,
                        message, 0, PENDING, written, swaps)
        /\ IF written = OK
              THEN /\ now' = now + 1
                   /\ swaps' = Append(swaps, new_swap_request(sender, receiver,
                                   skill_offered, skill_requested, message, now + 1))
              ELSE UNCHANGED <<swaps, now>>
        /\ UNCHANGED <<profiles, txn>>

\* (mutant: the status is written with a bulk update of every request of the
\* same sender to the same receiver)
respond_to_swap_UpdatesAllOfPair(id, user, new_status) ==
    LET swap_request == swaps[id]
        outcome == validate_swap_response(swap_request, user, new_status)
    IN  /\ last' = Call("respond", user, "-", "-", "-", "", id, new_status,
                        outcome, swaps)
        /\ IF outcome = OK
              THEN /\ now' = now + 1
                   /\ swaps' = [i \in DOMAIN swaps |->
                                  IF /\ swaps[i].sender = swap_request.sender
                                     /\ swaps[i].receiver = swap_request.receiver
                                     THEN [swaps[i] EXCEPT !.status = new_status,
                                                           !.updated_at = now + 1]
                                     ELSE swaps[i]]
              ELSE UNCHANGED <<swaps, now>>
        /\ UNCHANGED <<profiles, txn>>

\* (mutant: created_at is auto_now like updated_at, so a save refreshes it)
respond_to_swap_RefreshesCreatedAt(id, user, new_status) ==
    LET swap_request == swaps[id]
        outcome == validate_swap_response(swap_request, user, new_status)
        written == IF outcome # OK THEN outcome
                   ELSE IF violates_unique_together(swaps, id, swap_request.sender,
                                                    swap_request.receiver, new_status)
                       THEN IntegrityError
                   ELSE OK
    IN  /\ last' = Call("respond", user, "-", "-", "-", "", id, new_status,
                        written, swaps)
        /\ IF written = OK
              THEN /\ now' = now + 1
                   /\ swaps' = [swaps EXCEPT ![id].status = new_status,
                                             ![id].created_at = now + 1,
                                             ![id].updated_at = now + 1]
              ELSE UNCHANGED <<swaps, now>>
        /\ UNCHANGED <<profiles, txn>>

\* (mutant: a delete removes the row instead of marking it deleted)
respond_to_swap_HardDeletes(id, user, new_status) ==
    LET swap_request == swaps[id]
        outcome == validate_swap_response(swap_request, user, new_status)
        written == IF outcome # OK THEN outcome
                   ELSE IF violates_unique_together(swaps, id, swap_request.sender,
                                                    swap_request.receiver, new_status)
                       THEN IntegrityError
                   ELSE OK
    IN  /\ last' = Call("respond", user, "-", "-", "-", "", id, new_status,
                        written, swaps)
        /\ IF written = OK
              THEN /\ now' = now + 1
                   /\ swaps' = IF new_status = DELETED
                                  THEN SubSeq(swaps, 1, id - 1) \o SubSeq(swaps, id + 1, Len(swaps))
                                  ELSE [swaps EXCEPT ![id].status = new_status,
                                                     ![id].updated_at = now + 1]
              ELSE UNCHANGED <<swaps, now>>
        /\ UNCHANGED <<profiles, txn>>

\* (mutant: the new status is saved before the call is validated)
respond_to_swap_SavesBeforeValidating(id, user, new_status) ==
    LET swap_request == swaps[id]
        outcome == validate_swap_response(swap_request, user, new_status)
    IN  /\ last' = Call("respond", user, "-", "-", "-", "", id, new_status,
                        outcome, swaps)
        /\ now' = now + 1
        /\ swaps' = [swaps EXCEPT ![id].status = new_status,
                                  ![id].updated_at = now + 1]
        /\ UNCHANGED <<profiles, txn>>

\* SwapWorkflowService.respond_to_swap, one atomic transaction, on the row
\* with the given id as loaded at the call
respond_to_swap(id, user, new_status) ==
    LET swap_request == swaps[id]
        outcome == validate_swap_response(swap_request, user, new_status)
        written == IF outcome # OK THEN outcome
                   ELSE IF violates_unique_together(swaps, id, swap_request.sender,
                                                    swap_request.receiver, new_status)
                       THEN IntegrityError
                   ELSE OK
    IN  /\ last' = Call("respond", user, "-", "-", "-", "", id, new_status,
                        written, swaps)
        /\ IF written = OK
              THEN /\ now' = now + 1
                   /\ swaps' = [swaps EXCEPT ![id].status = new_status,
                                             ![id].updated_at = now + 1]
              ELSE UNCHANGED <<swaps, now>>
        /\ UNCHANGED <<profiles, txn>>

Next ==
    \/ \E sender \in Users, receiver \in Users, skill_offered \in Skills,
          skill_requested \in Skills, message \in Messages :
          create_swap_request(sender, receiver, skill_offered, skill_requested, message)
    \/ \E id \in DOMAIN swaps, user \in Users, new_status \in VALID_STATUSES :
          respond_to_swap(id, user, new_status)

Spec == Init /\ [][Next]_vars

\* ------------------------------------------- concurrent create_swap_request
\* First step of process p's transaction: the reads of validate_swap_creation
\* (services.py 115-117) against the committed tables.
txn_validate(p, sender, receiver, skill_offered, skill_requested, message) ==
    LET outcome == validate_swap_creation(sender, receiver, skill_offered, skill_requested)
    IN  /\ txn[p].pc # "validated"
        /\ Len(swaps) < MaxSwaps
        /\ txn' = [txn EXCEPT ![p] =
                     [pc |-> IF outcome = OK THEN "validated" ELSE "done",
                      sender |-> sender, receiver |-> receiver,
                      skill_offered |-> skill_offered,
                      skill_requested |-> skill_requested,
                      message |-> message, outcome |-> outcome]]
        /\ UNCHANGED <<profiles, swaps, now, last>>

\* Second step: the INSERT of SwapRequest.objects.create (services.py 120-127),
\* which the store refuses when it breaks unique_together.
txn_insert(p) ==
    LET c == txn[p]
        written == IF violates_unique_together(swaps, 0, c.sender, c.receiver, PENDING)
                       THEN IntegrityError
                       ELSE OK
    IN  /\ c.pc = "validated"
        /\ Len(swaps) < MaxSwaps
        /\ txn' = [txn EXCEPT ![p].pc = "done", ![p].outcome = written]
        /\ IF written = OK
              THEN /\ now' = now + 1
                   /\ swaps' = Append(swaps, new_swap_request(c.sender, c.receiver,
                                   c.skill_offered, c.skill_requested, c.message, now + 1))
              ELSE UNCHANGED <<swaps, now>>
        /\ UNCHANGED <<profiles, last>>

NextConc ==
    \/ \E p \in Procs, sender \in Users, receiver \in Users, skill_offered \in Skills,
          skill_requested \in Skills, message \in Messages :
          txn_validate(p, sender, receiver, skill_offered, skill_requested, message)
    \/ \E p \in Procs : txn_insert(p)

SpecConc == Init /\ [][NextConc]_vars

\* ---------------------------------------------------------------- queries
\* QuerySet.order_by('-<field>'): the ids in `ids`, the row with the largest
\* value of `field` first (the clock gives every write its own time; rows
\* with equal times would come in id order)
RECURSIVE order_by_desc(_, _, _)
order_by_desc(rows, ids, field) ==
    IF ids = {} THEN <<>>
    ELSE LET first == CHOOSE i \in ids :
                          \A j \in ids :
                              \/ rows[i][field] > rows[j][field]
                              \/ rows[i][field] = rows[j][field] /\ i <= j
         IN  <<first>> \o order_by_desc(rows, ids \ {first}, field)

\* (mutant: only the Q(sender=user) branch of the filter is there)
get_user_swap_history_SentOnly(user) ==
    order_by_desc(swaps, {i \in DOMAIN swaps : swaps[i].sender = user}, "created_at")

\* ProfileService.get_user_swap_history: the ids of the rows returned, in
\* the order returned
get_user_swap_history(user) ==
    order_by_desc(swaps,
                  {i \in DOMAIN swaps : swaps[i].sender = user \/ swaps[i].receiver = user},
                  "created_at")

\* the characters of the skill names and search terms
chars ==
    [s \in Skills \cup SearchTerms |->
        CASE s = "Python" -> <<"P", "y", "t", "h", "o", "n">>
          [] s = "Design" -> <<"D", "e", "s", "i", "g", "n">>
          [] s = "python" -> <<"p", "y", "t", "h", "o", "n">>
          [] s = "PYTHON" -> <<"P", "Y", "T", "H", "O", "N">>
          [] s = "Py" -> <<"P", "y">>
          [] s = "sign" -> <<"s", "i", "g", "n">>
          [] s = "Java" -> <<"J", "a", "v", "a">>
          [] OTHER -> <<>>]

UPPERCASE == <<"A", "B", "C", "D", "E", "F", "G", "H", "I", "J", "K", "L", "M", "N", "O", "P", "Q", "R", "S", "T", "U", "V", "W", "X", "Y", "Z">>
LOWERCASE == <<"a", "b", "c", "d", "e", "f", "g", "h", "i", "j", "k", "l", "m", "n", "o", "p", "q", "r", "s", "t", "u", "v", "w", "x", "y", "z">>

\* case folding of one character, as the __icontains lookup applies it
lower(c) ==
    IF \E k \in DOMAIN UPPERCASE : UPPERCASE[k] = c
        THEN LOWERCASE[CHOOSE k \in DOMAIN UPPERCASE : UPPERCASE[k] = c]
        ELSE c

\* name__icontains=skill_name: skill_name occurs in name, case folded
icontains(name, skill_name) ==
    \E start \in 0..(Len(chars[name]) - Len(chars[skill_name])) :
        \A k \in DOMAIN chars[skill_name] :
            lower(chars[name][start + k]) = lower(chars[skill_name][k])

\* (mutant: the visibility condition of the filter is missing)
get_public_profiles_IgnoresVisibility == {p \in profiles : p.is_public}

\* ProfileService.get_public_profiles: the rows returned
get_public_profiles == {p \in profiles : p.is_public /\ p.visibility = PUBLIC}

\* ProfileService.search_profiles_by_skill: the rows returned, one per
\* profile and offered skill that matches (the filter joins skills_offered)
search_profiles_by_skill(skill_name) ==
    {[profile |-> p, skill |-> skill] :
        <<p, skill>> \in {<<q, sk>> \in profiles \X Skills :
                             /\ q.is_public /\ q.visibility = PUBLIC
                             /\ sk \in q.skills_offered
                             /\ icontains(sk, skill_name)}}

\* calls of the two profile queries
call_get_public_profiles ==
    /\ last' = Call("public_profiles", "-", "-", "-", "-", "", 0, "-", OK, swaps)
    /\ UNCHANGED <<profiles, swaps, now, txn>>

call_search_profiles_by_skill(skill_name) ==
    /\ last' = Call("search", "-", "-", "-", skill_name, "", 0, "-", OK, swaps)
    /\ UNCHANGED <<profiles, swaps, now, txn>>

\* (mutant: only the requests the user received are looked at)
get_pending_swaps_for_user_ReceivedOnly(user) ==
    order_by_desc(swaps,
                  {i \in DOMAIN swaps : swaps[i].receiver = user /\ swaps[i].status = PENDING},
                  "created_at")

\* ProfileService.get_pending_swaps_for_user: the ids of the rows returned,
\* in the order returned
get_pending_swaps_for_user(user) ==
    order_by_desc(swaps,
                  {i \in DOMAIN swaps :
                      /\ swaps[i].sender = user \/ swaps[i].receiver = user
                      /\ swaps[i].status = PENDING},
                  "created_at")

\* calls of the two queries
call_get_user_swap_history(user) ==
    /\ last' = Call("history", user, "-", "-", "-", "", 0, "-", OK, swaps)
    /\ UNCHANGED <<profiles, swaps, now, txn>>

call_get_pending_swaps_for_user(user) ==
    /\ last' = Call("pending", user, "-", "-", "-", "", 0, "-", OK, swaps)
    /\ UNCHANGED <<profiles, swaps, now, txn>>

\* NotificationService.create_swap_notification: the transient record built
\* for row `id`
create_swap_notification(id, action) ==
    [id |-> id, action |-> action, timestamp |-> swaps[id].updated_at,
     swap_request |-> [sender |-> swaps[id].sender, receiver |-> swaps[id].receiver,
                       skill_offered |-> swaps[id].skill_offered,
                       skill_requested |-> swaps[id].skill_requested,
                       status |-> swaps[id].status]]

\* the slice [:10] of get_user_notifications
RECENT_LIMIT == 10

\* queryset[:n]
first_n(seq, n) == SubSeq(seq, 1, IF Len(seq) < n THEN Len(seq) ELSE n)

\* (mutant: pending rows are filtered out by the query, before the slice)
get_user_notifications_FiltersBeforeSlice(user) ==
    LET recent_swaps ==
            first_n(order_by_desc(swaps,
                        {i \in DOMAIN swaps :
                            /\ swaps[i].sender = user \/ swaps[i].receiver = user
                            /\ swaps[i].status # PENDING},
                        "updated_at"),
                    RECENT_LIMIT)
    IN  [k \in DOMAIN recent_swaps |->
            create_swap_notification(recent_swaps[k], "swap_" \o swaps[recent_swaps[k]].status)]

\* NotificationService.get_user_notifications: the list returned
get_user_notifications(user) ==
    LET recent_swaps ==
            first_n(order_by_desc(swaps,
                        {i \in DOMAIN swaps :
                            swaps[i].sender = user \/ swaps[i].receiver = user},
                        "updated_at"),
                    RECENT_LIMIT)
        notified == SelectSeq(recent_swaps, LAMBDA i : swaps[i].status # PENDING)
    IN  [k \in DOMAIN notified |->
            create_swap_notification(notified[k], "swap_" \o swaps[notified[k]].status)]

\* a call of NotificationService.get_user_notifications
call_get_user_notifications(user) ==
    /\ last' = Call("notifications", user, "-", "-", "-", "", 0, "-", OK, swaps)
    /\ UNCHANGED <<profiles, swaps, now, txn>>

\* SpecNotify: get_user_notifications over the tables a longer run of the
\* workflow leaves behind. WorkflowRun is a run of successful
\* create_swap_request and respond_to_swap calls among three users with
\* public profiles; the table after each of its prefixes is a starting state.
Cr(sender, receiver, skill_offered, skill_requested) == [op |-> "create", sender |-> sender, receiver |-> receiver, skill_offered |-> skill_offered, skill_requested |-> skill_requested]
Rs(id, user, new_status) == [op |-> "respond", id |-> id, user |-> user, new_status |-> new_status]

WorkflowRun ==
    << Cr("alice", "bob", "Python", "Design"),   Rs(1, "bob", REJECTED),
       Cr("alice", "bob", "Python", "Design"),   Rs(2, "bob", ACCEPTED),
       Rs(2, "alice", COMPLETED),
       Cr("alice", "bob", "Python", "Design"),   Rs(3, "alice", DELETED),
       Cr("bob", "alice", "Design", "Python"),   Rs(4, "alice", REJECTED),
       Cr("bob", "alice", "Design", "Python"),   Rs(5, "alice", ACCEPTED),
       Cr("alice", "carol", "Python", "Design"), Rs(6, "carol", ACCEPTED),
       Cr("carol", "alice", "Design", "Python"), Rs(7, "alice", REJECTED),
       Cr("alice", "carol", "Python", "Design"), Rs(8, "carol", REJECTED),
       Cr("bob", "carol", "Design", "Design"),   Rs(9, "carol", ACCEPTED),
       Cr("carol", "alice", "Design", "Python"), Rs(10, "carol", DELETED),
       Cr("alice", "bob", "Python", "Design"),
       Cr("alice", "carol", "Python", "Design"), Rs(12, "alice", DELETED),
       Cr("carol", "bob", "Design", "Design"),
       Rs(5, "bob", COMPLETED),                  Rs(6, "alice", COMPLETED),
       Cr("carol", "alice", "Design", "Python") >>

\* the SwapRequest table after the first n calls of a run, the k-th call
\* being made at time k
RECURSIVE table_after(_, _)
table_after(run, n) ==
    IF n = 0 THEN <<>>
    ELSE LET rows == table_after(run, n - 1)
             call == run[n]
         IN  IF call.op = "create"
                THEN Append(rows, new_swap_request(call.sender, call.receiver,
                                      call.skill_offered, call.skill_requested, "hi", n))
                ELSE [rows EXCEPT ![call.id].status = call.new_status,
                                  ![call.id].updated_at = n]

AllPublic ==
    { ProfileRow("alice", TRUE, PUBLIC, {"Python"}, {"Design"}),
      ProfileRow("bob", TRUE, PUBLIC, {"Design"}, {"Python"}),
      ProfileRow("carol", TRUE, PUBLIC, {"Design"}, {"Python"}) }

InitNotify ==
    /\ profiles = AllPublic
    /\ \E n \in 0..Len(WorkflowRun) : swaps = table_after(WorkflowRun, n) /\ now = n
    /\ last = NoCall
    /\ txn = [p \in Procs |-> Idle]

NextNotify == \E user \in Users : call_get_user_notifications(user)

SpecNotify == InitNotify /\ [][NextNotify]_vars

\* ------------------------------------------------------ validator calls
\* SpecValidate: the validators of SwapValidationService called on their
\* own, between the workflow calls. They are explored on tables below the
\* bound, where the create_swap_request they precede can still be modelled.
\* (mutant: the lookup of a pending request is a get_or_create, which stores
\* the request it did not find)
call_validate_swap_creation_GetOrCreate(sender, receiver, skill_offered, skill_requested) ==
    LET outcome == validate_swap_creation(sender, receiver, skill_offered, skill_requested)
    IN  /\ Len(swaps) < MaxSwaps
        /\ last' = Call("validate_create", sender, receiver, skill_offered,
                        skill_requested, "", 0, PENDING, outcome, swaps)
        /\ IF outcome = OK
              THEN /\ now' = now + 1
                   /\ swaps' = Append(swaps, new_swap_request(sender, receiver,
                                   skill_offered, skill_requested, "", now + 1))
              ELSE UNCHANGED <<swaps, now>>
        /\ UNCHANGED <<profiles, txn>>

\* a call of SwapValidationService.validate_swap_creation on its own
call_validate_swap_creation(sender, receiver, skill_offered, skill_requested) ==
    LET outcome == validate_swap_creation(sender, receiver, skill_offered, skill_requested)
    IN  /\ Len(swaps) < MaxSwaps
        /\ last' = Call("validate_create", sender, receiver, skill_offered,
                        skill_requested, "", 0, PENDING, outcome, swaps)
        /\ UNCHANGED <<profiles, swaps, now, txn>>

\* a call of SwapValidationService.validate_swap_response on its own, on the
\* row with the given id
call_validate_swap_response(id, user, new_status) ==
    LET outcome == validate_swap_response(swaps[id], user, new_status)
    IN  /\ Len(swaps) < MaxSwaps
        /\ last' = Call("validate_respond", user, "-", "-", "-", "", id, new_status,
                        outcome, swaps)
        /\ UNCHANGED <<profiles, swaps, now, txn>>

NextValidate ==
    \/ \E sender \in Users, receiver \in Users, skill_offered \in Skills,
          skill_requested \in Skills, message \in Messages :
          create_swap_request(sender, receiver, skill_offered, skill_requested, message)
    \/ \E id \in DOMAIN swaps, user \in Users, new_status \in VALID_STATUSES :
          respond_to_swap(id, user, new_status)
    \/ \E sender \in Users, receiver \in Users, skill_offered \in Skills,
          skill_requested \in Skills :
          call_validate_swap_creation(sender, receiver, skill_offered, skill_requested)
    \/ \E id \in DOMAIN swaps, user \in Users, new_status \in VALID_STATUSES :
          call_validate_swap_response(id, user, new_status)

SpecValidate == Init /\ [][NextValidate]_vars

\* ------------------------------------------------- queries in the workflow
\* SpecQueries: the queries of ProfileService called between the workflow calls
NextQueries ==
    \/ \E sender \in Users, receiver \in Users, skill_offered \in Skills,
          skill_requested \in Skills, message \in Messages :
          create_swap_request(sender, receiver, skill_offered, skill_requested, message)
    \/ \E id \in DOMAIN swaps, user \in Users, new_status \in VALID_STATUSES :
          respond_to_swap(id, user, new_status)
    \/ \E user \in Users : call_get_user_swap_history(user)
    \/ \E user \in Users : call_get_pending_swaps_for_user(user)
    \/ call_get_public_profiles
    \/ \E skill_name \in SearchTerms : call_search_profiles_by_skill(skill_name)

SpecQueries == Init /\ [][NextQueries]_vars

\* ------------------------------------------------------------ profile edits
\* SpecEdits: respond_to_swap on the requests a run of the workflow among
\* three users with public profiles has left behind, with profiles edited on
\* the admin site (ProfileAdmin) between the calls. A run has at most
\* MaxEdits edits: each edit clears the is_public flag of a profile or takes
\* a skill out of its skills_offered.
EarlyCalls == SubSeq(WorkflowRun, 1, 11)

\* the number of edits that led from AllPublic to the rows
edits_made(rows) ==
    Cardinality({p \in rows : ~p.is_public})
      + Cardinality({<<p, skill>> \in AllPublic \X Skills :
                        /\ skill \in p.skills_offered
                        /\ \E q \in rows : q.user = p.user /\ skill \notin q.skills_offered})

ProfileAdmin_clear_is_public(user) ==
    /\ edits_made(profiles) < MaxEdits
    /\ has_profile(profiles, user)
    /\ profile_of(profiles, user).is_public
    /\ profiles' = (profiles \ {profile_of(profiles, user)})
                      \cup {[profile_of(profiles, user) EXCEPT !.is_public = FALSE]}
    /\ UNCHANGED <<swaps, now, last, txn>>

ProfileAdmin_remove_skill_offered(user, skill) ==
    /\ edits_made(profiles) < MaxEdits
    /\ has_profile(profiles, user)
    /\ skill \in profile_of(profiles, user).skills_offered
    /\ profiles' = (profiles \ {profile_of(profiles, user)})
                      \cup {[profile_of(profiles, user) EXCEPT
                                !.skills_offered = @ \ {skill}]}
    /\ UNCHANGED <<swaps, now, last, txn>>

InitEdits ==
    /\ profiles = AllPublic
    /\ \E n \in 0..Len(EarlyCalls) : swaps = table_after(EarlyCalls, n) /\ now = n
    /\ last = NoCall
    /\ txn = [p \in Procs |-> Idle]

NextEdits ==
    \/ \E id \in DOMAIN swaps, user \in Users, new_status \in VALID_STATUSES :
          respond_to_swap(id, user, new_status)
    \/ \E user \in Users : ProfileAdmin_clear_is_public(user)
    \/ \E user \in Users, skill \in Skills : ProfileAdmin_remove_skill_offered(user, skill)

SpecEdits == InitEdits /\ [][NextEdits]_vars

\* ------------------------------------------------------------------ the API
\* SpecApi: the workflow as the two API endpoints of api/views.py drive it.
VALIDATION_ERROR == "Validation error"
Actions == {"accept", "reject", "delete", "complete"}

\* (mutant: the serializer also offers the action complete)
SwapResponseSerializer_OffersComplete(action) ==
    CASE action = "accept" -> ACCEPTED
      [] action = "reject" -> REJECTED
      [] action = "delete" -> DELETED
      [] action = "complete" -> COMPLETED
      [] OTHER -> "invalid"

\* SwapResponseSerializer: the status validated_data['action'] holds, or
\* "invalid" when the action is none of the choices
SwapResponseSerializer(action) ==
    CASE action = "accept" -> ACCEPTED
      [] action = "reject" -> REJECTED
      [] action = "delete" -> DELETED
      [] OTHER -> "invalid"

\* POST /api/swaps/: the authenticated user is the sender
api_create_swap_request(user, receiver, skill_offered, skill_requested, message) ==
    create_swap_request(user, receiver, skill_offered, skill_requested, message)

\* POST /api/swaps/<id>/respond/: an action the serializer refuses ends the
\* request before the service is called
api_respond_to_swap(swap_id, user, action) ==
    IF SwapResponseSerializer(action) = "invalid"
        THEN /\ last' = Call("respond_refused", user, "-", "-", "-", "", swap_id, "-",
                             ValidationError(VALIDATION_ERROR), swaps)
             /\ UNCHANGED <<profiles, swaps, now, txn>>
        ELSE respond_to_swap(swap_id, user, SwapResponseSerializer(action))

NextApi ==
    \/ \E user \in Users, receiver \in Users, skill_offered \in Skills,
          skill_requested \in Skills, message \in Messages :
          api_create_swap_request(user, receiver, skill_offered, skill_requested, message)
    \/ \E swap_id \in DOMAIN swaps, user \in Users, action \in Actions :
          api_respond_to_swap(swap_id, user, action)

SpecApi == Init /\ [][NextApi]_vars

\* =================================================================== claims
\* the transition table as the specification states it (section 4.2)
TransitionTable ==
    {<<"pending", "accepted">>, <<"pending", "rejected">>, <<"pending", "deleted">>,
     <<"accepted", "completed">>}

TerminalStatuses == {"completed", "rejected", "deleted"}

\* the two users of a row, as an unordered pair
Pair(row) == {row.sender, row.receiver}

\* the row a respond_to_swap call was given, as it was when the call began
Given == last.before[last.id]

PendingBetween(rows, u1, u2) ==
    \E i \in DOMAIN rows : rows[i].status = "pending" /\ Pair(rows[i]) = {u1, u2}

\* C1: in every state reached by atomic create_swap_request and
\* respond_to_swap calls, any two users have at most one pending swap
\* request between them, counting both directions.
C1_AtMostOnePendingPerPair ==
    \A i, j \in DOMAIN swaps :
        (i # j /\ swaps[i].status = "pending" /\ swaps[j].status = "pending")
            => Pair(swaps[i]) # Pair(swaps[j])

\* a pending alice -> bob request exists and bob's create towards alice has
\* just been refused as a duplicate
C1_Witness ==
    /\ last.op = "create" /\ last.user = "bob" /\ last.receiver = "alice"
    /\ last.outcome = ValidationError(DUPLICATE_PENDING)
    /\ \E i \in DOMAIN swaps :
          swaps[i].sender = "alice" /\ swaps[i].receiver = "bob"
          /\ swaps[i].status = "pending"

\* C2: when two create_swap_request transactions for the same pair of users
\* overlap (both validate before either inserts), the table never holds two
\* pending requests between that pair, exactly one of the two succeeds and
\* the other ends in the store's conflict error.
C2_ConcurrentCreatesExactlyOneSucceeds ==
    /\ \A i, j \in DOMAIN swaps :
          (i # j /\ swaps[i].status = "pending" /\ swaps[j].status = "pending")
              => {swaps[i].sender, swaps[i].receiver} # {swaps[j].sender, swaps[j].receiver}
    /\ \A p, q \in Procs :
          ( /\ p # q
            /\ txn[p].pc = "done" /\ txn[q].pc = "done"
            /\ {txn[p].sender, txn[p].receiver} = {txn[q].sender, txn[q].receiver}
            /\ txn[p].outcome.exc \in {"none", "IntegrityError"}
            /\ txn[q].outcome.exc \in {"none", "IntegrityError"} )
          => \/ txn[p].outcome = OK /\ txn[q].outcome = IntegrityError
             \/ txn[q].outcome = OK /\ txn[p].outcome = IntegrityError

\* C3: a respond_to_swap call whose (current status, target status) pair is
\* not in the transition table fails with the invalid-transition error,
\* whoever the acting user is, and the table is left as it was.
C3_IllegalTransitionRefused ==
    (last.op = "respond" /\ <<Given.status, last.new_status>> \notin TransitionTable)
        => /\ last.outcome = ValidationError(INVALID_STATUS_TRANSITION)
           /\ swaps = last.before
           /\ swaps[last.id].status = Given.status

\* the receiver of a rejected request has just tried to accept it
C3_Witness ==
    /\ last.op = "respond" /\ Given.status = "rejected" /\ last.new_status = "accepted"
    /\ last.user = Given.receiver
    /\ last.outcome = ValidationError(INVALID_STATUS_TRANSITION)

\* the role the transition needs: the receiver accepts or rejects, the sender
\* deletes, no role is named for completing
HasRequiredRole(row, user, new_status) ==
    /\ new_status \in {"accepted", "rejected"} => user = row.receiver
    /\ new_status = "deleted" => user = row.sender

\* C4: a respond_to_swap call whose (current status, target status) pair is
\* in the transition table, made by a user with the required role, succeeds
\* and leaves the stored status at the target, whatever other requests exist.
C4_LegalTransitionSucceeds ==
    ( /\ last.op = "respond"
      /\ <<Given.status, last.new_status>> \in TransitionTable
      /\ HasRequiredRole(Given, last.user, last.new_status) )
        => /\ last.outcome = OK
           /\ swaps[last.id].status = last.new_status

\* C5: on a pending request, accept or reject by anyone but the receiver and
\* delete by anyone but the sender fail with the unauthorized-action error
\* and leave the status pending; accept or reject by the receiver and delete
\* by the sender succeed.
C5_RoleEnforcement ==
    (last.op = "respond" /\ Given.status = "pending"
        /\ last.new_status \in {"accepted", "rejected", "deleted"})
        => IF HasRequiredRole(Given, last.user, last.new_status)
              THEN /\ last.outcome = OK
                   /\ swaps[last.id].status = last.new_status
              ELSE /\ last.outcome = PermissionDenied(UNAUTHORIZED_ACTION)
                   /\ swaps[last.id].status = "pending"

\* C6: a request whose status is completed, rejected or deleted keeps that
\* status in every later step, and every respond_to_swap call on it (any
\* user, any target, its own status included) fails with the
\* invalid-transition error.
C6_TerminalAbsorbing ==
    [][ /\ \A i \in DOMAIN swaps :
              swaps[i].status \in TerminalStatuses
                  => (i \in DOMAIN swaps' /\ swaps'[i].status = swaps[i].status)
        /\ (last'.op = "respond" /\ swaps[last'.id].status \in TerminalStatuses)
              => last'.outcome = ValidationError(INVALID_STATUS_TRANSITION)
      ]_vars

\* a respond_to_swap with target rejected has just been refused on a request
\* that was already rejected, with the invalid-transition error
C6_Witness ==
    /\ last.op = "respond" /\ Given.status = "rejected" /\ last.new_status = "rejected"
    /\ last.outcome = ValidationError(INVALID_STATUS_TRANSITION)
    /\ swaps[last.id].status = "rejected"

\* C7: create_swap_request with sender = receiver fails with the self-swap
\* error and inserts nothing, whatever the profile, the skills and the
\* pending requests are.
C7_SelfSwapRefused ==
    (last.op = "create" /\ last.user = last.receiver)
        => /\ last.outcome = ValidationError(SWAP_TO_SELF)
           /\ swaps = last.before

\* carol, who has no profile, has just been refused a swap with herself
\* while a pending request exists
C7_Witness ==
    /\ last.op = "create" /\ last.user = "carol" /\ last.receiver = "carol"
    /\ ~has_profile(profiles, "carol")
    /\ last.outcome = ValidationError(SWAP_TO_SELF)
    /\ \E i \in DOMAIN swaps : swaps[i].status = "pending"

\* C8: a successful create_swap_request adds exactly one row, which is
\* pending and carries the sender, receiver, skill_offered and
\* skill_requested of the call; the rows that existed are untouched.
C8_CreatedRowIsPending ==
    (last.op = "create" /\ last.outcome = OK)
        => /\ Len(swaps) = Len(last.before) + 1
           /\ SubSeq(swaps, 1, Len(last.before)) = last.before
           /\ swaps[Len(swaps)].status = "pending"
           /\ swaps[Len(swaps)].sender = last.user
           /\ swaps[Len(swaps)].receiver = last.receiver
           /\ swaps[Len(swaps)].skill_offered = last.skill_offered
           /\ swaps[Len(swaps)].skill_requested = last.skill_requested

\* alice's request to bob (Python for Design) has just been created
C8_Witness ==
    /\ last.op = "create" /\ last.outcome = OK
    /\ last.user = "alice" /\ last.receiver = "bob"
    /\ last.skill_offered = "Python" /\ last.skill_requested = "Design"
    /\ Len(swaps) = Len(last.before) + 1

\* C9 as stated: with a pending request between the two users, in either
\* direction, create_swap_request fails with the duplicate-pending error and
\* inserts nothing, whatever skills are named.
C9_DuplicateWhateverSkills ==
    (last.op = "create" /\ PendingBetween(last.before, last.user, last.receiver))
        => /\ last.outcome = ValidationError(DUPLICATE_PENDING)
           /\ swaps = last.before

\* the checks validate_swap_creation makes before it looks for a pending
\* request, stated on the Profile table
EarlierChecksPass(sender, receiver, skill_offered, skill_requested) ==
    /\ sender # receiver
    /\ \E p \in profiles :
          /\ p.user = receiver /\ p.is_public /\ p.visibility = "public"
          /\ skill_requested \in p.skills_offered
    /\ \E p \in profiles : p.user = sender /\ skill_offered \in p.skills_offered

\* C9 (amended): with a pending request between the two users, in either
\* direction, create_swap_request fails and inserts nothing; the error is the
\* duplicate-pending error when the receiver's profile is swap-eligible and
\* each named skill is offered by the user it is asked of, and the error of
\* the first of those checks that fails otherwise.
C9_DuplicateAfterEarlierChecks ==
    (last.op = "create" /\ PendingBetween(last.before, last.user, last.receiver))
        => /\ last.outcome # OK
           /\ swaps = last.before
           /\ EarlierChecksPass(last.user, last.receiver, last.skill_offered,
                                last.skill_requested)
                 <=> last.outcome = ValidationError(DUPLICATE_PENDING)

\* with alice -> bob pending, bob's request to alice has just been refused as
\* a duplicate
C9_Witness ==
    /\ last.op = "create" /\ last.user = "bob" /\ last.receiver = "alice"
    /\ last.skill_offered = "Design" /\ last.skill_requested = "Python"
    /\ \E i \in DOMAIN last.before :
          last.before[i].sender = "alice" /\ last.before[i].receiver = "bob"
          /\ last.before[i].status = "pending"
    /\ last.outcome = ValidationError(DUPLICATE_PENDING)
    /\ swaps = last.before

\* swap-eligible, as the specification defines it
SwapEligible(p) == p.is_public = TRUE /\ p.visibility = "public"

\* what the claim says of a create call by `sender` towards `receiver`
ReceiverRule ==
    /\ last.outcome = OK
          => \E p \in profiles : p.user = last.receiver /\ SwapEligible(p)
    /\ (~\E p \in profiles : p.user = last.receiver)
          => last.outcome = ValidationError(PROFILE_NOT_FOUND)
    /\ (\E p \in profiles : p.user = last.receiver /\ ~SwapEligible(p))
          => last.outcome = ValidationError(PROFILE_NOT_PUBLIC)

\* C10 as stated: every create_swap_request call obeys the receiver rule:
\* success only with a swap-eligible receiver profile, the profile-not-found
\* error without a receiver profile, the profile-not-public error with a
\* receiver profile that is not swap-eligible.
C10_ReceiverMustBeEligible ==
    last.op = "create" => ReceiverRule

\* C10 (amended): the same for every call whose sender is not its receiver
\* (a self-swap is refused with the self-swap error before the profile is
\* looked at).
C10_ReceiverMustBeEligibleUnlessSelf ==
    (last.op = "create" /\ last.user # last.receiver) => ReceiverRule

\* alice's request to bob, whose profile is friends_only with is_public set,
\* has just been refused with the profile-not-public error
C10_Witness ==
    /\ last.op = "create" /\ last.user = "alice" /\ last.receiver = "bob"
    /\ \E p \in profiles :
          p.user = "bob" /\ p.is_public /\ p.visibility = "friends_only"
    /\ last.outcome = ValidationError(PROFILE_NOT_PUBLIC)
    /\ swaps = last.before

\* does `user` offer `skill`, read off the Profile table
Offers(user, skill) == \E p \in profiles : p.user = user /\ skill \in p.skills_offered

\* a create_swap_request call that names a skill its sender does not offer or
\* a skill its receiver does not offer
NamesUnownedSkill ==
    /\ last.op = "create"
    /\ ~Offers(last.user, last.skill_offered) \/ ~Offers(last.receiver, last.skill_requested)

SkillNotOwned ==
    {SenderLacksSkill(last.skill_offered), ReceiverLacksSkill(last.skill_requested)}

\* every stored request offers a skill of its sender and asks for a skill of
\* its receiver
StoredSkillsAreOffered ==
    \A i \in DOMAIN swaps :
        /\ Offers(swaps[i].sender, swaps[i].skill_offered)
        /\ Offers(swaps[i].receiver, swaps[i].skill_requested)

\* `user` has a profile whose offered-skills set lacks `skill`
OfferedSetLacks(user, skill) ==
    \E p \in profiles : p.user = user /\ skill \notin p.skills_offered

C12_ReceiverCannotComplete ==
    ( /\ last.op = "respond"
      /\ Given.sender = "alice" /\ Given.receiver = "bob"
      /\ Given.skill_offered = "Python" /\ Given.skill_requested = "Design"
      /\ Given.status = "accepted"
      /\ last.user = "bob" /\ last.new_status = "completed" )
        => /\ last.outcome # OK
           /\ swaps[last.id].status = "accepted"

\* C13: a create_swap_request or respond_to_swap call that ends in an error
\* (ValidationError, PermissionDenied, Profile.DoesNotExist or the store's
\* IntegrityError at the write) leaves the SwapRequest table, and so the set
\* of requests and the status of each, exactly as it was before the call.
C13_AllOrNothing ==
    (last.op \in {"create", "respond"} /\ last.outcome # OK)
        => /\ swaps = last.before
           /\ DOMAIN swaps = DOMAIN last.before
           /\ \A i \in DOMAIN swaps : swaps[i].status = last.before[i].status

\* the receiver's reject of a pending request has just been refused by the
\* store at the write (an earlier rejected request of the same sender to the
\* same receiver exists), and the request is still pending
C13_Witness ==
    /\ last.op = "respond" /\ last.new_status = "rejected"
    /\ last.user = Given.receiver /\ Given.status = "pending"
    /\ last.outcome = IntegrityError
    /\ swaps = last.before
    /\ swaps[last.id].status = "pending"

\* the outcome create_swap_request would have on the given tables
CreateOutcome(sender, receiver, skill_offered, skill_requested) ==
    LET outcome == validate_swap_creation(sender, receiver, skill_offered, skill_requested)
    IN  IF outcome # OK THEN outcome
        ELSE IF \E j \in DOMAIN swaps :
                   /\ swaps[j].sender = sender /\ swaps[j].receiver = receiver
                   /\ swaps[j].status = "pending"
            THEN IntegrityError
        ELSE OK

\* the outcome respond_to_swap would have on the given tables
RespondOutcome(id, user, new_status) ==
    LET outcome == validate_swap_response(swaps[id], user, new_status)
    IN  IF outcome # OK THEN outcome
        ELSE IF \E j \in DOMAIN swaps :
                   /\ j # id
                   /\ swaps[j].sender = swaps[id].sender
                   /\ swaps[j].receiver = swaps[id].receiver
                   /\ swaps[j].status = new_status
            THEN IntegrityError
        ELSE OK

\* C14: a call of validate_swap_creation or validate_swap_response, passing
\* or failing, leaves the Profile table (skill sets included) and the
\* SwapRequest table (statuses included) as they were, and the
\* create_swap_request or respond_to_swap call with the validated arguments
\* has the same outcome after the validator call as it would have had
\* before it.
C14_ValidatorsReadOnly ==
    [][ /\ last'.op \in {"validate_create", "validate_respond"}
             => (profiles' = profiles /\ swaps' = swaps)
        /\ \A sender \in Users, receiver \in Users, skill_offered \in Skills,
              skill_requested \in Skills :
              ( /\ last'.op = "validate_create"
                /\ last'.user = sender /\ last'.receiver = receiver
                /\ last'.skill_offered = skill_offered
                /\ last'.skill_requested = skill_requested )
                 => CreateOutcome(sender, receiver, skill_offered, skill_requested)'
                      = CreateOutcome(sender, receiver, skill_offered, skill_requested)
        /\ \A id \in DOMAIN swaps, user \in Users, new_status \in VALID_STATUSES :
              ( /\ last'.op = "validate_respond"
                /\ last'.id = id /\ last'.user = user
                /\ last'.new_status = new_status )
                 => /\ id \in DOMAIN swaps'
                    /\ RespondOutcome(id, user, new_status)'
                          = RespondOutcome(id, user, new_status)
      ]_vars

\* validate_swap_creation has just passed for alice's request to bob while an
\* earlier, rejected request of alice to bob is stored, and nothing was added
C14_Witness ==
    /\ last.op = "validate_create" /\ last.outcome = OK
    /\ last.user = "alice" /\ last.receiver = "bob"
    /\ Len(swaps) = 1 /\ swaps[1].status = "rejected"
    /\ swaps = last.before

\* the elements of a sequence
Range(seq) == {seq[k] : k \in DOMAIN seq}

\* C15: create_swap_request and respond_to_swap never remove a request: every
\* row that existed before a call exists after it with the sender, receiver
\* and creation time it had; after a successful delete by the sender the row
\* is in place with status deleted and get_user_swap_history returns it for
\* its sender and for its receiver.
C15_NeverRemoved ==
    /\ last.op \in {"create", "respond"}
          => /\ Len(swaps) >= Len(last.before)
             /\ \A i \in DOMAIN last.before :
                   /\ swaps[i].sender = last.before[i].sender
                   /\ swaps[i].receiver = last.before[i].receiver
                   /\ swaps[i].created_at = last.before[i].created_at
    /\ ( /\ last.op = "respond" /\ last.new_status = "deleted"
         /\ last.user = Given.sender /\ last.outcome = OK )
          => /\ last.id \in DOMAIN swaps
             /\ swaps[last.id].status = "deleted"
             /\ last.id \in Range(get_user_swap_history(swaps[last.id].sender))
             /\ last.id \in Range(get_user_swap_history(swaps[last.id].receiver))

\* alice has just deleted her second request to bob (the first one was
\* rejected); both rows are stored and bob's history still has the deleted one
C15_Witness ==
    /\ last.op = "respond" /\ last.new_status = "deleted" /\ last.outcome = OK
    /\ last.user = "alice" /\ last.id = 2 /\ Len(swaps) = 2
    /\ swaps[1].status = "rejected"
    /\ swaps[2].sender = "alice" /\ swaps[2].receiver = "bob"
    /\ swaps[2].status = "deleted"
    /\ get_user_swap_history("bob") = <<2, 1>>

\* C16: a create_swap_request call made while no pending request exists
\* between its sender and its receiver, and whose other preconditions hold
\* (different users, swap-eligible receiver profile, each skill offered by
\* the user it is asked of), succeeds whatever accepted, completed, rejected
\* or deleted requests exist between the two.
C16_OnlyPendingCounts ==
    ( /\ last.op = "create"
      /\ ~PendingBetween(last.before, last.user, last.receiver)
      /\ EarlierChecksPass(last.user, last.receiver, last.skill_offered,
                           last.skill_requested) )
        => /\ last.outcome = OK
           /\ Len(swaps) = Len(last.before) + 1

\* bob's request to alice has just been created although an earlier request
\* between the two, no longer pending, is stored
C16_Witness ==
    /\ last.op = "create" /\ last.user = "bob" /\ last.receiver = "alice"
    /\ last.outcome = OK
    /\ \E i \in DOMAIN last.before :
          /\ Pair(last.before[i]) = {"alice", "bob"}
          /\ last.before[i].status \in {"accepted", "completed", "rejected", "deleted"}

\* the requests in which `user` is sender or receiver
Involving(user) ==
    {i \in DOMAIN swaps : swaps[i].sender = user \/ swaps[i].receiver = user}

\* the 10 most recently updated of them: those with fewer than 10 requests
\* of the user updated later
TenMostRecentlyUpdated(user) ==
    {i \in Involving(user) :
        Cardinality({j \in Involving(user) : swaps[j].updated_at > swaps[i].updated_at}) < 10}

\* C17: get_user_notifications(user) has exactly one record for each
\* non-pending request among the 10 most recently updated requests that
\* involve the user, most recently updated first, each with action "swap_"
\* followed by the request's status; no record is for a pending request or
\* for a request not involving the user; the call leaves the SwapRequest
\* table as it was.
C17_Notifications ==
    last.op = "notifications"
        => LET result == get_user_notifications(last.user)
               expected == {i \in TenMostRecentlyUpdated(last.user) : swaps[i].status # "pending"}
           IN  /\ Len(result) = Cardinality(expected)
               /\ {result[k].id : k \in DOMAIN result} = expected
               /\ \A k, l \in DOMAIN result :
                     k < l => swaps[result[k].id].updated_at > swaps[result[l].id].updated_at
               /\ \A k \in DOMAIN result :
                     /\ result[k].action = "swap_" \o swaps[result[k].id].status
                     /\ swaps[result[k].id].status # "pending"
                     /\ result[k].id \in Involving(last.user)
               /\ swaps = last.before

\* alice has asked for her notifications while twelve requests involve her:
\* two of her ten most recently updated ones are pending, so eight records
\* come back, and her two oldest rejected or completed requests are left out
C17_Witness ==
    /\ last.op = "notifications" /\ last.user = "alice"
    /\ Cardinality(Involving("alice")) = 12
    /\ Len(get_user_notifications("alice")) = 8
    /\ get_user_notifications("alice")[1].action = "swap_completed"
    /\ \E i \in Involving("alice") :
          /\ swaps[i].status # "pending"
          /\ \A k \in DOMAIN get_user_notifications("alice") :
                get_user_notifications("alice")[k].id # i

\* C18: get_user_swap_history(user) returns the requests whose sender or
\* receiver is the user, each once, the more recently created first; in
\* every state a request is in the history of a user exactly when that user
\* is its sender or its receiver.
C18_History ==
    /\ last.op = "history"
          => LET result == get_user_swap_history(last.user)
             IN  /\ Range(result) = Involving(last.user)
                 /\ Len(result) = Cardinality(Involving(last.user))
                 /\ \A k, l \in DOMAIN result :
                       k < l => swaps[result[k]].created_at >= swaps[result[l]].created_at
    /\ \A i \in DOMAIN swaps, user \in Users :
          i \in Range(get_user_swap_history(user)) <=> user \in Pair(swaps[i])

\* bob has asked for his history, which holds his later request to alice
\* before alice's earlier request to him; carol's history is empty
C18_Witness ==
    /\ last.op = "history" /\ last.user = "bob"
    /\ Len(swaps) = 2
    /\ swaps[1].sender = "alice" /\ swaps[1].receiver = "bob"
    /\ swaps[2].sender = "bob" /\ swaps[2].receiver = "alice"
    /\ get_user_swap_history("bob") = <<2, 1>>
    /\ get_user_swap_history("carol") = <<>>

\* C19: get_pending_swaps_for_user(user) is get_user_swap_history(user) with
\* the requests that are not pending left out, in the same order; the request
\* of a successful respond_to_swap is in no user's pending list after the
\* call, and a request that was not pending before a call is in no user's
\* pending list after it.
C19_PendingIsHistoryRestricted ==
    /\ \A user \in Users :
          get_pending_swaps_for_user(user)
             = SelectSeq(get_user_swap_history(user), LAMBDA i : swaps[i].status = "pending")
    /\ (last.op = "respond" /\ last.outcome = OK)
          => \A user \in Users : last.id \notin Range(get_pending_swaps_for_user(user))
    /\ \A i \in DOMAIN last.before, user \in Users :
          last.before[i].status # "pending"
              => i \notin Range(get_pending_swaps_for_user(user))

\* alice has asked for her pending requests after bob's request to her was
\* created and her own earlier request to bob was rejected: the list holds
\* bob's request alone, her history both
C19_Witness ==
    /\ last.op = "pending" /\ last.user = "alice"
    /\ Len(swaps) = 2
    /\ swaps[1].sender = "alice" /\ swaps[1].status = "rejected"
    /\ swaps[2].sender = "bob" /\ swaps[2].status = "pending"
    /\ get_pending_swaps_for_user("alice") = <<2>>
    /\ get_user_swap_history("alice") = <<2, 1>>

\* which skill names contain which search terms when case is ignored
ContainsIgnoringCase ==
    {<<"Python", "">>, <<"Design", "">>, <<"Python", "python">>, <<"Python", "PYTHON">>,
     <<"Python", "Py">>, <<"Design", "sign">>}

\* the profiles the latest profile query returned
Returned ==
    IF last.op = "public_profiles" THEN get_public_profiles
    ELSE {row.profile : row \in search_profiles_by_skill(last.skill_requested)}

\* validate_swap_creation gets past its receiver-profile checks for a request
\* of another user to `user`
AcceptedAsReceiver(user) ==
    \A sender \in Users \ {user}, skill_offered \in Skills, skill_requested \in Skills :
        validate_swap_creation(sender, user, skill_offered, skill_requested)
            \notin {ValidationError(PROFILE_NOT_FOUND), ValidationError(PROFILE_NOT_PUBLIC)}

\* C20: get_public_profiles() returns exactly the profiles with is_public
\* set and visibility public; search_profiles_by_skill(name) returns only
\* such profiles that offer a skill whose name contains `name` when case is
\* ignored; every profile either query returns is accepted by
\* validate_swap_creation as a receiver, and no profile that it refuses as a
\* receiver is returned.
C20_ProfileQueries ==
    /\ last.op = "public_profiles"
          => get_public_profiles
               = {p \in profiles : p.is_public = TRUE /\ p.visibility = "public"}
    /\ last.op = "search"
          => \A row \in search_profiles_by_skill(last.skill_requested) :
                /\ row.profile \in profiles
                /\ row.profile.is_public = TRUE /\ row.profile.visibility = "public"
                /\ \E skill \in row.profile.skills_offered :
                      <<skill, last.skill_requested>> \in ContainsIgnoringCase
    /\ last.op \in {"public_profiles", "search"}
          => /\ \A p \in Returned : AcceptedAsReceiver(p.user)
             /\ \A p \in profiles : ~AcceptedAsReceiver(p.user) => p \notin Returned

\* the search for "PYTHON" has just returned alice's profile, which offers
\* Python, and not the profile of bob, which is friends_only
C20_Witness ==
    /\ last.op = "search" /\ last.skill_requested = "PYTHON"
    /\ \E p \in profiles : p.user = "bob" /\ p.is_public /\ p.visibility = "friends_only"
    /\ {row.profile.user : row \in search_profiles_by_skill("PYTHON")} = {"alice"}
    /\ {p.user : p \in get_public_profiles} = {"alice"}

\* C21: after a respond_to_swap call, successful or not, the request it was
\* given has the sender, receiver, skill_offered, skill_requested and
\* message it had before the call (those of its creation), and every other
\* request is exactly as it was.
C21_RespondTouchesOnlyStatus ==
    last.op = "respond"
        => /\ DOMAIN swaps = DOMAIN last.before
           /\ swaps[last.id].sender = Given.sender
           /\ swaps[last.id].receiver = Given.receiver
           /\ swaps[last.id].skill_offered = Given.skill_offered
           /\ swaps[last.id].skill_requested = Given.skill_requested
           /\ swaps[last.id].message = Given.message
           /\ \A i \in DOMAIN swaps : i # last.id => swaps[i] = last.before[i]

\* alice has just deleted her second request to bob; her first one, rejected
\* earlier, is as it was
C21_Witness ==
    /\ last.op = "respond" /\ last.outcome = OK /\ last.id = 2
    /\ last.new_status = "deleted" /\ Len(swaps) = 2
    /\ swaps[2].sender = "alice" /\ swaps[2].receiver = "bob"
    /\ swaps[1].sender = "alice" /\ swaps[1].receiver = "bob"
    /\ swaps[1].status = "rejected" /\ swaps[1] = last.before[1]
    /\ swaps[2].status = "deleted" /\ swaps[2].updated_at > Given.updated_at

\* C22: a respond_to_swap call whose target is not reachable from the
\* request's status fails with the invalid-transition error also when the
\* acting user lacks the role the target needs; the unauthorized-action
\* error only comes out for a pending request with target accepted,
\* rejected or deleted.
C22_LegalityBeforeAuthorization ==
    /\ ( /\ last.op = "respond"
         /\ <<Given.status, last.new_status>> \notin TransitionTable
         /\ ~HasRequiredRole(Given, last.user, last.new_status) )
          => last.outcome = ValidationError(INVALID_STATUS_TRANSITION)
    /\ (last.op = "respond" /\ last.outcome = PermissionDenied(UNAUTHORIZED_ACTION))
          => /\ Given.status = "pending"
             /\ last.new_status \in {"accepted", "rejected", "deleted"}

\* carol, a stranger to the request, has just tried to delete an accepted
\* request and was told the transition is invalid, not that she is
\* unauthorized
C22_Witness ==
    /\ last.op = "respond" /\ last.user = "carol" /\ last.new_status = "deleted"
    /\ Given.status = "accepted" /\ Given.sender # "carol"
    /\ last.outcome = ValidationError(INVALID_STATUS_TRANSITION)

\* the error the stated order of the creation preconditions gives a call:
\* self-swap, receiver profile missing, receiver profile not public,
\* skill_offered not offered by the sender, skill_requested not offered by
\* the receiver, duplicate pending
FirstViolated(sender, receiver, skill_offered, skill_requested, rows) ==
    IF sender = receiver THEN ValidationError(SWAP_TO_SELF)
    ELSE IF ~\E p \in profiles : p.user = receiver THEN ValidationError(PROFILE_NOT_FOUND)
    ELSE IF ~\E p \in profiles : p.user = receiver /\ SwapEligible(p)
        THEN ValidationError(PROFILE_NOT_PUBLIC)
    ELSE IF ~Offers(sender, skill_offered) THEN SenderLacksSkill(skill_offered)
    ELSE IF ~Offers(receiver, skill_requested) THEN ReceiverLacksSkill(skill_requested)
    ELSE IF PendingBetween(rows, sender, receiver) THEN ValidationError(DUPLICATE_PENDING)
    ELSE OK

\* C23: a create_swap_request call that violates one or more creation
\* preconditions fails with the error of the first violated one in the
\* order self-swap, receiver profile missing, receiver profile not public,
\* skill_offered not offered by the sender, skill_requested not offered by
\* the receiver, duplicate pending; the duplicate-pending error comes out
\* only when every other precondition holds.
C23_FirstViolatedReported ==
    last.op = "create"
        => /\ FirstViolated(last.user, last.receiver, last.skill_offered,
                            last.skill_requested, last.before) # OK
                 => last.outcome = FirstViolated(last.user, last.receiver,
                                       last.skill_offered, last.skill_requested, last.before)
           /\ last.outcome = ValidationError(DUPLICATE_PENDING)
                 => EarlierChecksPass(last.user, last.receiver, last.skill_offered,
                                      last.skill_requested)

\* C24: with time as a logical clock, a successful respond_to_swap leaves
\* the request with an updated_at not earlier than the one it had and not
\* earlier than its created_at, and with the created_at it had; a failed
\* respond_to_swap leaves updated_at as it was.
C24_Timestamps ==
    last.op = "respond"
        => /\ swaps[last.id].created_at = Given.created_at
           /\ last.outcome = OK
                 => /\ swaps[last.id].updated_at >= Given.updated_at
                    /\ swaps[last.id].updated_at >= swaps[last.id].created_at
           /\ last.outcome # OK
                 => swaps[last.id].updated_at = Given.updated_at

\* the first of two requests has just been completed, after the second one
\* was created: it is now the one updated last although it was created first
C24_Witness ==
    /\ last.op = "respond" /\ last.outcome = OK /\ last.new_status = "completed"
    /\ last.id = 1 /\ Len(swaps) = 2
    /\ swaps[1].created_at < swaps[2].created_at
    /\ swaps[1].updated_at > swaps[2].updated_at
    /\ swaps[1].updated_at > Given.updated_at

\* C25: a respond_to_swap call by a user who is neither the sender nor the
\* receiver of the request fails, whatever the target and the request's
\* status are (accepted to completed included), and the status stays.
C25_OnlyParticipantsChangeStatus ==
    (last.op = "respond" /\ last.user \notin Pair(Given))
        => /\ last.outcome # OK
           /\ swaps[last.id].status = Given.status

\* another row of `rows` than row `id` has this sender, receiver and status
Collides(rows, id, sender, receiver, status) ==
    \E j \in DOMAIN rows \ {id} :
        rows[j].sender = sender /\ rows[j].receiver = receiver /\ rows[j].status = status

StepsFromPending(status) ==
    CASE status = "pending" -> 0
      [] status \in {"accepted", "rejected", "deleted"} -> 1
      [] status = "completed" -> 2

\* C27: every request has one of the five valid statuses; a request starts
\* pending and each call leaves its status as it was or moves it along one
\* transition of the table, a successful respond_to_swap always moving it
\* one transition further from pending; no status is more than two
\* transitions from pending, so at most two respond_to_swap calls on a
\* request succeed.
C27_WorkflowEnds ==
    /\ \A i \in DOMAIN swaps :
          /\ swaps[i].status \in {"pending", "accepted", "completed", "rejected", "deleted"}
          /\ StepsFromPending(swaps[i].status) <= 2
    /\ last.op \in {"create", "respond"}
          => /\ \A i \in DOMAIN swaps \ DOMAIN last.before : swaps[i].status = "pending"
             /\ \A i \in DOMAIN last.before :
                   \/ swaps[i].status = last.before[i].status
                   \/ <<last.before[i].status, swaps[i].status>> \in TransitionTable
    /\ (last.op = "respond" /\ last.outcome = OK)
          => /\ <<Given.status, swaps[last.id].status>> \in TransitionTable
             /\ StepsFromPending(swaps[last.id].status) = StepsFromPending(Given.status) + 1

\* a request has just been completed, the second successful respond_to_swap
\* on it, and a further respond_to_swap on it can only fail
C27_Witness ==
    /\ last.op = "respond" /\ last.outcome = OK
    /\ Given.status = "accepted" /\ swaps[last.id].status = "completed"
    /\ \A user \in Users, new_status \in VALID_STATUSES :
          validate_swap_response(swaps[last.id], user, new_status) # OK

\* C28: respond_to_swap looks at the request's status, the acting user and
\* the target only: its validation passes exactly when the transition is in
\* the table and the user has the role it needs, and an edit of a profile
\* (the receiver's profile made non-public, a named skill taken out of an
\* offered set) changes the outcome of no respond_to_swap call, so a pending
\* request can be accepted, rejected or deleted after it as before.
C28_RespondIgnoresProfiles ==
    [][ /\ profiles' # profiles
             => \A id \in DOMAIN swaps, user \in Users, new_status \in VALID_STATUSES :
                   /\ id \in DOMAIN swaps'
                   /\ RespondOutcome(id, user, new_status)'
                         = RespondOutcome(id, user, new_status)
        /\ last'.op = "respond" /\ last' # last
             => ( last'.outcome \in {OK, IntegrityError}
                    <=> /\ <<swaps[last'.id].status, last'.new_status>> \in TransitionTable
                        /\ HasRequiredRole(swaps[last'.id], last'.user, last'.new_status) )
      ]_vars

\* bob has just accepted alice's request although his profile is no longer
\* public and he no longer offers the skill she asked for
C28_Witness ==
    /\ last.op = "respond" /\ last.user = "bob" /\ last.new_status = "accepted"
    /\ last.outcome = OK
    /\ swaps[last.id].sender = "alice" /\ swaps[last.id].status = "accepted"
    /\ \/ \E p \in profiles : p.user = "bob" /\ ~p.is_public
       \/ \E p \in profiles : p.user = "bob" /\ swaps[last.id].skill_requested \notin p.skills_offered

\* C29: under API create and respond requests alone, a respond request only
\* ever asks for accepted, rejected or deleted, no request is ever
\* completed, and a request that was accepted before a call is accepted
\* after it.
C29_ApiNeverCompletes ==
    /\ last.op = "respond" => last.new_status \in {"accepted", "rejected", "deleted"}
    /\ \A i \in DOMAIN swaps : swaps[i].status # "completed"
    /\ \A i \in DOMAIN last.before :
          last.before[i].status = "accepted" => swaps[i].status = "accepted"

\* the API has just refused the action complete on an accepted request, which
\* stays accepted
C29_Witness ==
    /\ last.op = "respond_refused" /\ last.id \in DOMAIN swaps
    /\ swaps[last.id].status = "accepted"
    /\ last.user = swaps[last.id].receiver
    /\ last.outcome = ValidationError(VALIDATION_ERROR)
    /\ swaps = last.before

\* C30: a create_swap_request call by a sender without a profile, to another
\* user whose profile is swap-eligible, inserts nothing and fails with a
\* ValidationError, the error kind of the other creation preconditions.
C30_SenderWithoutProfile ==
    ( /\ last.op = "create"
      /\ last.user # last.receiver
      /\ ~\E p \in profiles : p.user = last.user
      /\ \E p \in profiles : p.user = last.receiver /\ SwapEligible(p) )
        => /\ swaps = last.before
           /\ last.outcome.exc = "ValidationError"

====
